---- MODULE Spec2Model ----
(***************************************************************************)
(* A model of the skynet-review command-line client (src/Cli/src):         *)
(*   - ApiClient::analyze_stream, the SSE ingestion loop (api_client.rs)   *)
(*   - ApiClient::new, the gateway URL policy (api_client.rs)              *)
(*   - get_git_diff_files / get_changed_files / validate_git_ref /         *)
(*     validate_path_within_repo / filter_analyzable_files (main.rs,       *)
(*     git.rs)                                                             *)
(* Bytes and chars of the stream are integers (byte values, code points);  *)
(* git references, paths and URLs are sequences of one-character strings.  *)
(***************************************************************************)
EXTENDS Integers, Sequences, FiniteSets, TLC

(***************************************************************************)
(* Text helpers                                                            *)
(***************************************************************************)

\* The printable ASCII characters, in code order starting at U+0020 (the grave
\* accent, which a string literal cannot hold, is a placeholder).
AsciiPrintable ==
    <<" ","!","\"","#","$","%","&","'","(",")","*","+",",","-",".","/",
      "0","1","2","3","4","5","6","7","8","9",":",";","<","=",">","?","@",
      "A","B","C","D","E","F","G","H","I","J","K","L","M","N","O","P","Q",
      "R","S","T","U","V","W","X","Y","Z","[","\\","]","^","_","(grave)",
      "a","b","c","d","e","f","g","h","i","j","k","l","m","n","o","p","q",
      "r","s","t","u","v","w","x","y","z","{","|","}","~">>

\* The code point of a one-character string.
Ord(c) ==
    IF c = "\n" THEN 10
    ELSE IF c = "\r" THEN 13
    ELSE IF c = "\t" THEN 9
    ELSE 31 + (CHOOSE i \in 1..Len(AsciiPrintable) : AsciiPrintable[i] = c)

\* The bytes (= code points) of an ASCII string literal.
Bytes(s) == [i \in 1..Len(s) |-> Ord(s[i])]

\* s[from..] and s[..to] with Rust's slice conventions (1-based here).
DropFirst(s, n) == SubSeq(s, n + 1, Len(s))
TakeFirst(s, n) == SubSeq(s, 1, n)

(***************************************************************************)
(* String::from_utf8_lossy (api_client.rs:130).  Every maximal invalid     *)
(* prefix of a sequence becomes one U+FFFD; a sequence truncated by the    *)
(* end of the chunk is invalid.                                            *)
(***************************************************************************)
ReplacementChar == 65533

IsCont(b) == b >= 128 /\ b <= 191

\* Whether b2 may follow the lead byte b1 of a 3- or 4-byte sequence.
SecondOk(b1, b2) ==
    CASE b1 = 224 -> b2 >= 160 /\ b2 <= 191
      [] b1 = 237 -> b2 >= 128 /\ b2 <= 159
      [] b1 = 240 -> b2 >= 144 /\ b2 <= 191
      [] b1 = 244 -> b2 >= 128 /\ b2 <= 143
      [] OTHER    -> IsCont(b2)

\* The byte at position i, or 0 past the end (a 0 is never a continuation).
ByteAt(bs, i) == IF i >= 1 /\ i <= Len(bs) THEN bs[i] ELSE 0

\* The number of bytes the decoder takes as one unit at position i: a whole
\* character, or the longest prefix of one that is still valid.
SeqLen(bs, i) ==
    LET b1 == bs[i]
        b2 == ByteAt(bs, i + 1)
        b3 == ByteAt(bs, i + 2)
        b4 == ByteAt(bs, i + 3)
    IN  IF b1 >= 194 /\ b1 <= 223 THEN (IF IsCont(b2) THEN 2 ELSE 1)
        ELSE IF b1 >= 224 /\ b1 <= 239
        THEN (IF ~SecondOk(b1, b2) THEN 1 ELSE IF ~IsCont(b3) THEN 2 ELSE 3)
        ELSE IF b1 >= 240 /\ b1 <= 244
        THEN (IF ~SecondOk(b1, b2) THEN 1
              ELSE IF ~IsCont(b3) THEN 2
              ELSE IF ~IsCont(b4) THEN 3 ELSE 4)
        ELSE 1

\* The width the lead byte at position i announces (0: not a lead byte).
CharWidth(b1) ==
    IF b1 < 128 THEN 1
    ELSE IF b1 >= 194 /\ b1 <= 223 THEN 2
    ELSE IF b1 >= 224 /\ b1 <= 239 THEN 3
    ELSE IF b1 >= 240 /\ b1 <= 244 THEN 4
    ELSE 0

\* The char decoded from the unit at position i: its code point when the unit
\* is a whole character, U+FFFD otherwise.
CharAt(bs, i) ==
    LET b1 == bs[i]
        b2 == ByteAt(bs, i + 1)
        b3 == ByteAt(bs, i + 2)
        b4 == ByteAt(bs, i + 3)
    IN  IF SeqLen(bs, i) # CharWidth(b1) THEN ReplacementChar
        ELSE IF b1 < 128 THEN b1
        ELSE IF b1 <= 223 THEN (b1 - 192) * 64 + (b2 - 128)
        ELSE IF b1 <= 239 THEN (b1 - 224) * 4096 + (b2 - 128) * 64 + (b3 - 128)
        ELSE (b1 - 240) * 262144 + (b2 - 128) * 4096 + (b3 - 128) * 64 + (b4 - 128)

\* Whether a unit begins at position i: every byte that is no continuation
\* byte begins one, and so does a continuation byte that the unit of the
\* nearest byte before it does not reach.
UnitStart(bs, i) ==
    \/ ~IsCont(bs[i])
    \/ \A d \in 1..3 :
           (/\ i - d >= 1
            /\ ~IsCont(bs[i - d])
            /\ \A k \in (i - d + 1)..(i - 1) : IsCont(bs[k]))
               => d >= SeqLen(bs, i - d)

\* f[lo] \o ... \o f[hi], joined pairwise so that the nesting stays shallow.
RECURSIVE ConcatRange(_, _, _)
ConcatRange(f, lo, hi) ==
    IF lo > hi THEN <<>>
    ELSE IF lo = hi THEN f[lo]
    ELSE LET mid == (lo + hi) \div 2
         IN  ConcatRange(f, lo, mid) \o ConcatRange(f, mid + 1, hi)

Utf8Lossy(bs) ==
    LET unit == [i \in 1..Len(bs) |->
                    IF UnitStart(bs, i) THEN <<CharAt(bs, i)>> ELSE <<>>]
    IN  ConcatRange(unit, 1, Len(bs))

(***************************************************************************)
(* str::find('\n'), str::trim, str::strip_prefix (api_client.rs:134-147)   *)
(***************************************************************************)
Newline == Bytes(<<"\n">>)[1]

\* The index of the first '\n' of text, or 0 when there is none.
FindNewline(text) ==
    IF \E i \in 1..Len(text) : text[i] = Newline
    THEN CHOOSE i \in 1..Len(text) :
             text[i] = Newline /\ \A j \in 1..(i - 1) : text[j] # Newline
    ELSE 0

\* char::is_whitespace: the Unicode White_Space code points.
IsWhitespace(c) ==
    \/ c >= 9 /\ c <= 13
    \/ c \in {32, 133, 160, 5760, 8232, 8233, 8239, 8287, 12288}
    \/ c >= 8192 /\ c <= 8202

Trim(s) ==
    IF \A i \in 1..Len(s) : IsWhitespace(s[i]) THEN <<>>
    ELSE LET first == CHOOSE i \in 1..Len(s) :
                          ~IsWhitespace(s[i]) /\ \A j \in 1..(i - 1) : IsWhitespace(s[j])
             last  == CHOOSE i \in 1..Len(s) :
                          ~IsWhitespace(s[i]) /\ \A j \in (i + 1)..Len(s) : IsWhitespace(s[j])
         IN  SubSeq(s, first, last)

HasPrefix(s, p) == Len(s) >= Len(p) /\ TakeFirst(s, Len(p)) = p

\* Option<&str>: <<>> is None, <<rest>> is Some(rest).
StripPrefix(s, p) == IF HasPrefix(s, p) THEN <<DropFirst(s, Len(p))>> ELSE <<>>

EventPrefix == Bytes(<<"e","v","e","n","t",":"," ">>)
DataPrefix  == Bytes(<<"d","a","t","a",":"," ">>)
TypeFinding  == Bytes(<<"f","i","n","d","i","n","g">>)
TypeError    == Bytes(<<"e","r","r","o","r">>)
TypeComplete == Bytes(<<"c","o","m","p","l","e","t","e">>)
ServerErrorPrefix == Bytes(<<"S","e","r","v","e","r"," ","e","r","r","o","r",":"," ">>)
StreamReadErrorPrefix ==
    Bytes(<<"S","t","r","e","a","m"," ","r","e","a","d"," ","e","r","r","o","r",":"," ">>)

(***************************************************************************)
(* serde_json::from_str::<SecurityFinding> (api_client.rs:150, the struct  *)
(* of models.rs:31-52).  The decoder reads one JSON object whose values    *)
(* are strings (with the one-character escapes), integers, null, true or   *)
(* false; nested values, \u escapes and fractions do not occur in the      *)
(* payloads of this model and are reported as decode errors.               *)
(***************************************************************************)
Quote     == Ord("\"")
Backslash == Ord("\\")
LBrace    == Ord("{")
RBrace    == Ord("}")
Colon     == Ord(":")
Comma     == Ord(",")
Minus     == Ord("-")
Digit0    == Ord("0")

JsonErr == [ok |-> FALSE]

JsonWs(c) == c \in {Ord(" "), Ord("\t"), Ord("\n"), Ord("\r")}

RECURSIVE SkipWs(_, _)
SkipWs(s, i) == IF i <= Len(s) /\ JsonWs(s[i]) THEN SkipWs(s, i + 1) ELSE i

\* The character an escape letter stands for, or 0.
Unescape(e) ==
    CASE e = Quote     -> Quote
      [] e = Backslash -> Backslash
      [] e = Ord("/")  -> Ord("/")
      [] e = Ord("n")  -> 10
      [] e = Ord("r")  -> 13
      [] e = Ord("t")  -> 9
      [] e = Ord("b")  -> 8
      [] e = Ord("f")  -> 12
      [] OTHER         -> 0

\* A string, read from just after its opening quote.
RECURSIVE ParseStringBody(_, _, _)
ParseStringBody(s, i, acc) ==
    IF i > Len(s) THEN JsonErr
    ELSE IF s[i] = Quote
    THEN [ok |-> TRUE, next |-> i + 1, kind |-> "str", val |-> acc]
    ELSE IF s[i] = Backslash
    THEN IF Unescape(ByteAt(s, i + 1)) = 0 THEN JsonErr
         ELSE ParseStringBody(s, i + 2, Append(acc, Unescape(s[i + 1])))
    ELSE IF s[i] < 32 THEN JsonErr
    ELSE ParseStringBody(s, i + 1, Append(acc, s[i]))

IsDigit(c) == c >= Digit0 /\ c <= Digit0 + 9

RECURSIVE ScanDigits(_, _, _)
ScanDigits(s, i, acc) ==
    IF i <= Len(s) /\ IsDigit(s[i])
    THEN ScanDigits(s, i + 1, acc * 10 + (s[i] - Digit0))
    ELSE [next |-> i, val |-> acc]

ParseNumber(s, i) ==
    LET neg  == ByteAt(s, i) = Minus
        from == IF neg THEN i + 1 ELSE i
        d    == ScanDigits(s, from, 0)
    IN  IF d.next = from THEN JsonErr                        \* no digit
        ELSE IF s[from] = Digit0 /\ d.next > from + 1 THEN JsonErr   \* leading zero
        ELSE IF ByteAt(s, d.next) \in {Ord("."), Ord("e"), Ord("E")} THEN JsonErr
        ELSE [ok |-> TRUE, next |-> d.next, kind |-> "num",
              val |-> IF neg THEN 0 - d.val ELSE d.val]

ParseLiteral(s, i) ==
    LET rest == DropFirst(s, i - 1)
    IN  IF HasPrefix(rest, Bytes(<<"n","u","l","l">>))
        THEN [ok |-> TRUE, next |-> i + 4, kind |-> "null", val |-> <<>>]
        ELSE IF HasPrefix(rest, Bytes(<<"t","r","u","e">>))
        THEN [ok |-> TRUE, next |-> i + 4, kind |-> "bool", val |-> <<>>]
        ELSE IF HasPrefix(rest, Bytes(<<"f","a","l","s","e">>))
        THEN [ok |-> TRUE, next |-> i + 5, kind |-> "bool", val |-> <<>>]
        ELSE JsonErr

ParseValue(s, i) ==
    IF ByteAt(s, i) = Quote THEN ParseStringBody(s, i + 1, <<>>)
    ELSE IF ByteAt(s, i) = Minus \/ IsDigit(ByteAt(s, i)) THEN ParseNumber(s, i)
    ELSE ParseLiteral(s, i)

\* The members of an object, read from the first character of a key:
\* "key" : value , ... }
RECURSIVE ParseMembers(_, _, _)

\* After a value, at e: a comma and the next member, or the closing brace.
MemberEnd(s, acc, e) ==
    IF ByteAt(s, e) = Comma THEN ParseMembers(s, SkipWs(s, e + 1), acc)
    ELSE IF ByteAt(s, e) = RBrace THEN [ok |-> TRUE, next |-> e + 1, members |-> acc]
    ELSE JsonErr

MemberValue(s, acc, key, v) ==
    IF ~v.ok THEN JsonErr
    ELSE MemberEnd(s, Append(acc, <<key, v>>), SkipWs(s, v.next))

MemberColon(s, acc, key, c) ==
    IF ByteAt(s, c) # Colon THEN JsonErr
    ELSE MemberValue(s, acc, key, ParseValue(s, SkipWs(s, c + 1)))

MemberKey(s, acc, k) ==
    IF ~k.ok THEN JsonErr ELSE MemberColon(s, acc, k.val, SkipWs(s, k.next))

ParseMembers(s, i, acc) ==
    IF ByteAt(s, i) # Quote THEN JsonErr
    ELSE MemberKey(s, acc, ParseStringBody(s, i + 1, <<>>))

\* Nothing but whitespace may follow the object.
ObjectEnd(s, o) ==
    IF ~o.ok THEN JsonErr
    ELSE IF SkipWs(s, o.next) # Len(s) + 1 THEN JsonErr
    ELSE o

ObjectBody(s, j) ==
    IF ByteAt(s, j) = RBrace
    THEN ObjectEnd(s, [ok |-> TRUE, next |-> j + 1, members |-> <<>>])
    ELSE ObjectEnd(s, ParseMembers(s, j, <<>>))

\* One whole JSON object and nothing but whitespace around it.
ParseObject(s) ==
    IF ByteAt(s, SkipWs(s, 1)) # LBrace THEN JsonErr
    ELSE ObjectBody(s, SkipWs(s, SkipWs(s, 1) + 1))

\* The wire names of SecurityFinding's fields (models.rs:33-51).
KeyId            == Bytes(<<"i","d">>)
KeyTitle         == Bytes(<<"t","i","t","l","e">>)
KeyDescription   == Bytes(<<"d","e","s","c","r","i","p","t","i","o","n">>)
KeySeverityLevel == Bytes(<<"s","e","v","e","r","i","t","y","L","e","v","e","l">>)
KeyFilePath      == Bytes(<<"f","i","l","e","P","a","t","h">>)
KeyLineNumber    == Bytes(<<"l","i","n","e","N","u","m","b","e","r">>)
KeyCodeSnippet   == Bytes(<<"c","o","d","e","S","n","i","p","p","e","t">>)
KeyRemediation   == Bytes(<<"r","e","m","e","d","i","a","t","i","o","n">>)

\* The values a key is given, in order.
ValuesOf(members, key) ==
    LET Is(m) == m[1] = key
        hits  == SelectSeq(members, Is)
    IN  [i \in 1..Len(hits) |-> hits[i][2]]

IsString(v) == v.kind = "str"
IsU8(v)     == v.kind = "num" /\ v.val >= 0 /\ v.val <= 255
IsI32(v)    == v.kind = "num" /\ v.val >= (0 - 2147483647) - 1 /\ v.val <= 2147483647

IsNull(v)   == v.kind = "null"

\* A field that must be present once, and an Option field (absent, null or typed).
One(vs)       == Len(vs) = 1
AtMostOne(vs) == Len(vs) <= 1
OptionOf(vs)  == IF vs = <<>> \/ IsNull(vs[1]) THEN <<>> ELSE <<vs[1].val>>

\* The struct built from the values given to each field: every String and the
\* u8 present once, the Option fields absent, null or of their type.
FindingFields(id, title, descr, sev, path, line, code, rem) ==
    IF /\ One(id)    /\ IsString(id[1])
       /\ One(title) /\ IsString(title[1])
       /\ One(descr) /\ IsString(descr[1])
       /\ One(sev)   /\ IsU8(sev[1])
       /\ One(path)  /\ IsString(path[1])
       /\ AtMostOne(line) /\ (line = <<>> \/ IsNull(line[1]) \/ IsI32(line[1]))
       /\ AtMostOne(code) /\ (code = <<>> \/ IsNull(code[1]) \/ IsString(code[1]))
       /\ One(rem)   /\ IsString(rem[1])
    THEN <<[id             |-> id[1].val,
            title          |-> title[1].val,
            description    |-> descr[1].val,
            severity_level |-> sev[1].val,
            file_path      |-> path[1].val,
            line_number    |-> OptionOf(line),
            code_snippet   |-> OptionOf(code),
            remediation    |-> rem[1].val]>>
    ELSE <<>>

FindingOfMembers(m) ==
    FindingFields(ValuesOf(m, KeyId), ValuesOf(m, KeyTitle), ValuesOf(m, KeyDescription),
                  ValuesOf(m, KeySeverityLevel), ValuesOf(m, KeyFilePath),
                  ValuesOf(m, KeyLineNumber), ValuesOf(m, KeyCodeSnippet),
                  ValuesOf(m, KeyRemediation))

FindingOfObject(o) == IF ~o.ok THEN <<>> ELSE FindingOfMembers(o.members)

\* Result<SecurityFinding>: <<>> is Err, <<finding>> is Ok(finding).
DecodeFinding(data) == FindingOfObject(ParseObject(data))

(***************************************************************************)
(* One protocol line of analyze_stream's inner loop (api_client.rs:138-    *)
(* 163): what the line does to the event-type slot, the finding it hands   *)
(* to on_finding (sink) and the error it bails with, each <<>> when none.  *)
(***************************************************************************)
\* One protocol line when an empty line leaves the event type as it is.
HandleLineKeepsType(raw, slot) ==
    LET line  == Trim(raw)
        event == StripPrefix(line, EventPrefix)
        data  == StripPrefix(line, DataPrefix)
    IN  IF line = <<>>
        THEN [slot |-> slot, sink |-> <<>>, bail |-> <<>>]
        ELSE IF event # <<>>
        THEN [slot |-> <<event[1]>>, sink |-> <<>>, bail |-> <<>>]
        ELSE IF data # <<>>
        THEN IF slot = <<TypeFinding>>
             THEN [slot |-> slot, sink |-> DecodeFinding(data[1]), bail |-> <<>>]
             ELSE IF slot = <<TypeError>>
             THEN [slot |-> slot, sink |-> <<>>, bail |-> <<ServerErrorPrefix \o data[1]>>]
             ELSE [slot |-> slot, sink |-> <<>>, bail |-> <<>>]
        ELSE [slot |-> slot, sink |-> <<>>, bail |-> <<>>]

\* One protocol line when a finding that does not decode ends the stream.
HandleLineStrict(raw, slot) ==
    LET line  == Trim(raw)
        event == StripPrefix(line, EventPrefix)
        data  == StripPrefix(line, DataPrefix)
    IN  IF line = <<>>
        THEN [slot |-> <<>>, sink |-> <<>>, bail |-> <<>>]
        ELSE IF event # <<>>
        THEN [slot |-> <<event[1]>>, sink |-> <<>>, bail |-> <<>>]
        ELSE IF data # <<>>
        THEN IF slot = <<TypeFinding>>
             THEN IF DecodeFinding(data[1]) = <<>>
                  THEN [slot |-> slot, sink |-> <<>>, bail |-> <<ServerErrorPrefix \o data[1]>>]
                  ELSE [slot |-> slot, sink |-> DecodeFinding(data[1]), bail |-> <<>>]
             ELSE IF slot = <<TypeError>>
             THEN [slot |-> slot, sink |-> <<>>, bail |-> <<ServerErrorPrefix \o data[1]>>]
             ELSE [slot |-> slot, sink |-> <<>>, bail |-> <<>>]
        ELSE [slot |-> slot, sink |-> <<>>, bail |-> <<>>]

HandleLine(raw, slot) ==
    LET line  == Trim(raw)
        event == StripPrefix(line, EventPrefix)
        data  == StripPrefix(line, DataPrefix)
    IN  IF line = <<>>
        THEN [slot |-> <<>>, sink |-> <<>>, bail |-> <<>>]
        ELSE IF event # <<>>
        THEN [slot |-> <<event[1]>>, sink |-> <<>>, bail |-> <<>>]
        ELSE IF data # <<>>
        THEN IF slot = <<TypeFinding>>
             THEN [slot |-> slot, sink |-> DecodeFinding(data[1]), bail |-> <<>>]
             ELSE IF slot = <<TypeError>>
             THEN [slot |-> slot, sink |-> <<>>, bail |-> <<ServerErrorPrefix \o data[1]>>]
             ELSE [slot |-> slot, sink |-> <<>>, bail |-> <<>>]
        ELSE [slot |-> slot, sink |-> <<>>, bail |-> <<>>]

(***************************************************************************)
(* Character classes of one-character strings                              *)
(***************************************************************************)
Between(c, lo, hi) == Ord(c) >= Ord(lo) /\ Ord(c) <= Ord(hi)

\* char::is_whitespace, on the characters that occur in git output here.
IsWsChar(c) == c \in {" ", "\t", "\n", "\r"}

\* u8::to_ascii_lowercase.
ToAsciiLower(c) ==
    IF Between(c, "A", "Z") THEN AsciiPrintable[(Ord(c) + 32) - 31] ELSE c

\* Equality of two strings with no case folding.
EqExact(a, b) == a = b

\* str::eq_ignore_ascii_case (git.rs:146).
EqIgnoreAsciiCase(a, b) ==
    /\ Len(a) = Len(b)
    /\ \A i \in 1..Len(a) : ToAsciiLower(a[i]) = ToAsciiLower(b[i])

(***************************************************************************)
(* validate_git_ref (git.rs:53-67).  <<>> is Ok(()), <<m>> is Err(m).      *)
(***************************************************************************)
ErrRefLeadingDash == "Invalid git reference: cannot start with '-'"
ErrRefCharacters  == "Invalid git reference: contains invalid characters"

\* One character of the class [a-zA-Z0-9_./@^~-] (git.rs:60).
InRefClass(c) ==
    \/ Between(c, "a", "z")
    \/ Between(c, "A", "Z")
    \/ Between(c, "0", "9")
    \/ c \in {"_", ".", "/", "@", "^", "~", "-"}

\* Regex ^[a-zA-Z0-9_./@^~-]+$ : one or more characters, all of the class.
MatchesValidPattern(reference) ==
    /\ Len(reference) >= 1
    /\ \A i \in 1..Len(reference) : InRefClass(reference[i])

\* The pattern test alone.
ValidateGitRefNoDashCheck(reference) ==
    IF ~MatchesValidPattern(reference) THEN <<ErrRefCharacters>> ELSE <<>>

ValidateGitRef(reference) ==
    IF reference # <<>> /\ reference[1] = "-"
    THEN <<ErrRefLeadingDash>>
    ELSE IF ~MatchesValidPattern(reference)
         THEN <<ErrRefCharacters>>
         ELSE <<>>

(***************************************************************************)
(* Paths.  An absolute path is the sequence of its components, each a      *)
(* sequence of characters; a line of git output is a relative path text.   *)
(***************************************************************************)
\* The pieces of text between the occurrences of sep (n + 1 pieces for n
\* occurrences).
Pieces(text, sep) ==
    LET cuts == {i \in 1..Len(text) : text[i] = sep}
        n    == Cardinality(cuts)
        cut(k) == IF k = 0 THEN 0
                  ELSE IF k = n + 1 THEN Len(text) + 1
                  ELSE CHOOSE i \in cuts : Cardinality({j \in cuts : j < i}) = k - 1
    IN  [k \in 1..(n + 1) |-> SubSeq(text, cut(k - 1) + 1, cut(k) - 1)]

\* str::lines (git.rs:117): split at "\n", drop the empty piece after a final
\* "\n", strip one trailing "\r" from each line.
StrLines(text) ==
    LET p     == Pieces(text, "\n")
        lines == IF p[Len(p)] = <<>> THEN TakeFirst(p, Len(p) - 1) ELSE p
        strip(l) == IF l # <<>> /\ l[Len(l)] = "\r" THEN TakeFirst(l, Len(l) - 1) ELSE l
    IN  [k \in 1..Len(lines) |-> strip(lines[k])]

\* !line.trim().is_empty() (git.rs:119).
IsBlankText(line) == \A i \in 1..Len(line) : IsWsChar(line[i])

\* Path::components of a relative path text: empty components and "." are
\* dropped.
Components(text) ==
    SelectSeq(Pieces(text, "/"), LAMBDA c : c # <<>> /\ c # <<".">>)

\* PathBuf::join (git.rs:120): a text starting with "/" replaces the base.
Join(base, text) ==
    IF text # <<>> /\ text[1] = "/" THEN Components(text)
    ELSE base \o Components(text)

\* Prefix of the path as text, separators included.
StartsWithText(path, base) ==
    LET flat(p) == ConcatRange([k \in 1..Len(p) |-> <<"/">> \o p[k]], 1, Len(p))
    IN  /\ Len(flat(base)) <= Len(flat(path))
        /\ TakeFirst(flat(path), Len(flat(base))) = flat(base)

\* Path::starts_with: component-wise prefix (git.rs:77).
StartsWith(path, base) ==
    /\ Len(base) <= Len(path)
    /\ TakeFirst(path, Len(base)) = base

\* The file system as the calls of git.rs see it: the paths that exist and
\* what canonicalize returns for a path (<<>> is Err, <<p>> is Ok(p)).
Exists(fs, path) == path \in fs.exists
Canonicalize(fs, path) ==
    IF path \in DOMAIN fs.canon THEN fs.canon[path] ELSE <<>>

\* validate_path_within_repo (git.rs:70-80).
ValidatePathWithinRepo(path, repo_root, fs) ==
    IF ~Exists(fs, path) THEN TRUE
    ELSE LET cp == Canonicalize(fs, path)
             cr == Canonicalize(fs, repo_root)
         IN  IF cp # <<>> /\ cr # <<>>
             THEN StartsWith(cp[1], cr[1])
             ELSE FALSE

\* The changed_files of get_changed_files (git.rs:116-122).
ChangedFilesOf(stdout, repo_root, fs) ==
    LET lines    == StrLines(stdout)
        nonblank == SelectSeq(lines, LAMBDA l : ~IsBlankText(l))
        joined   == [k \in 1..Len(nonblank) |-> Join(repo_root, nonblank[k])]
    IN  SelectSeq(joined, LAMBDA p : ValidatePathWithinRepo(p, repo_root, fs))

(***************************************************************************)
(* filter_analyzable_files (git.rs:133-151).  extensions is <<>> for None  *)
(* and <<list>> for Some(list).                                            *)
(***************************************************************************)
DefaultExtensions ==
    << <<"c","s">>, <<"r","s">>, <<"p","y">>, <<"j","s">>, <<"t","s">>,
       <<"j","s","x">>, <<"t","s","x">>, <<"j","a","v","a">>, <<"g","o">>,
       <<"r","b">>, <<"p","h","p">>, <<"c">>, <<"c","p","p">>, <<"h">>,
       <<"h","p","p">> >>

\* Path::extension: the part of the file name after its last ".", None when
\* the name has no "." or only a leading one, or is "..".
Extension(path) ==
    IF path = <<>> THEN <<>>
    ELSE LET name == path[Len(path)]
             dots == {i \in 1..Len(name) : name[i] = "."}
             last == CHOOSE i \in dots : \A j \in dots : j <= i
         IN  IF name = <<".", ".">> \/ dots = {} THEN <<>>
             ELSE IF last = 1 THEN <<>>
             ELSE <<DropFirst(name, last)>>

FilterAnalyzableFiles(files, extensions, fs) ==
    LET allowed == IF extensions = <<>> THEN DefaultExtensions ELSE extensions[1]
        keep(path) ==
            /\ Extension(path) # <<>>
            /\ \E k \in 1..Len(allowed) :
                   EqIgnoreAsciiCase(allowed[k], Extension(path)[1])
            /\ Exists(fs, path)
    IN  SelectSeq(files, keep)

(***************************************************************************)
(* ApiClient::new (api_client.rs:15-45).  A URL is what Url::parse makes   *)
(* of the gateway address: its scheme and its host.                        *)
(***************************************************************************)
ErrInvalidUrl  == "Invalid gateway URL format"
ErrInsecure    == 
    "HTTPS is required for non-localhost connections. Use https:// or connect to localhost for development."
ErrHttpClient  == "Failed to create HTTP client"

\* Url::host_str: the host as serialized, an IPv6 address in brackets; None
\* when the URL has no host.
HostStr(host) ==
    IF host.kind = "none" THEN <<>>
    ELSE IF host.kind = "ipv6" THEN <<"[" \o host.text \o "]">>
    ELSE <<host.text>>

\* api_client.rs:21-24.
IsLocalhost(host) ==
    LET h == IF HostStr(host) = <<>> THEN "" ELSE HostStr(host)[1]
    IN  h = "localhost" \/ h = "127.0.0.1" \/ h = "::1"

\* api_client.rs:26-30: the condition under which new bails.
RejectsScheme(url) == url.scheme = "http" /\ ~IsLocalhost(url.host)

(***************************************************************************)
(* The response body of POST /api/analyze/stream.  A body is a sequence of *)
(* at most MaxUnits units, each a fragment of SSE text the gateway may     *)
(* send; the transport hands it out in chunks of any length up to MaxChunk *)
(* bytes, or all that is left.                                             *)
(***************************************************************************)
MaxUnits == 2
MaxChunk == 2

Lf    == Bytes(<<"\n">>)
CrLf  == Bytes(<<"\r","\n">>)
EAcute == <<195, 169>>            \* U+00E9 in UTF-8

\* {"id":"A","title":"<U+00E9>","description":"","severityLevel":1,
\*  "filePath":"a.rs","remediation":""}
JsonA ==
    Bytes(<<"{","\"","i","d","\"",":","\"","A","\"",",",
            "\"","t","i","t","l","e","\"",":","\"">>)
    \o EAcute
    \o Bytes(<<"\"",",","\"","d","e","s","c","r","i","p","t","i","o","n","\"",":","\"","\"",",",
               "\"","s","e","v","e","r","i","t","y","L","e","v","e","l","\"",":","1",",",
               "\"","f","i","l","e","P","a","t","h","\"",":","\"","a",".","r","s","\"",",",
               "\"","r","e","m","e","d","i","a","t","i","o","n","\"",":","\"","\"","}">>)

\* {"id":"B","title":"t","description":"","severityLevel":0,"filePath":"",
\*  "lineNumber":null,"remediation":""}
JsonB ==
    Bytes(<<"{","\"","i","d","\"",":","\"","B","\"",",",
            "\"","t","i","t","l","e","\"",":","\"","t","\"",",",
            "\"","d","e","s","c","r","i","p","t","i","o","n","\"",":","\"","\"",",",
            "\"","s","e","v","e","r","i","t","y","L","e","v","e","l","\"",":","0",",",
            "\"","f","i","l","e","P","a","t","h","\"",":","\"","\"",",",
            "\"","l","i","n","e","N","u","m","b","e","r","\"",":","n","u","l","l",",",
            "\"","r","e","m","e","d","i","a","t","i","o","n","\"",":","\"","\"","}">>)

\* {"id":7} : an object that is no SecurityFinding.
JsonBad == Bytes(<<"{","\"","i","d","\"",":","7","}">>)

Boom == Bytes(<<"b","o","o","m">>)

\* event: finding / data: A / blank line
UnitFindingA == EventPrefix \o TypeFinding \o Lf \o DataPrefix \o JsonA \o Lf \o Lf
\* event: finding / data: {"id":7} / data: B / blank line
UnitMalformedThenB ==
    EventPrefix \o TypeFinding \o Lf \o DataPrefix \o JsonBad \o Lf
        \o DataPrefix \o JsonB \o Lf \o Lf
\* data: B   (a data line with no event line of its own)
UnitDataB == DataPrefix \o JsonB \o Lf
\* event: error / data: boom / blank line
UnitError == EventPrefix \o TypeError \o Lf \o DataPrefix \o Boom \o Lf \o Lf
\* event: error / data: (empty payload) / blank line
UnitErrorEmpty == EventPrefix \o TypeError \o Lf \o DataPrefix \o Lf \o Lf
\* event: complete / data: {} / blank line, with CRLF line ends
UnitComplete ==
    EventPrefix \o TypeComplete \o CrLf \o DataPrefix \o Bytes(<<"{","}">>) \o CrLf \o CrLf
\* event: finding / data: A   with no line terminator after the data line
UnitTailA == EventPrefix \o TypeFinding \o Lf \o DataPrefix \o JsonA
\* event: ping   (a type the client does not know)
UnitPing == EventPrefix \o Bytes(<<"p","i","n","g">>) \o Lf

Units == <<UnitFindingA, UnitMalformedThenB, UnitDataB, UnitError,
           UnitErrorEmpty, UnitComplete, UnitTailA, UnitPing>>

Scripts == UNION {[1..n -> 1..Len(Units)] : n \in 0..MaxUnits}

\* The bytes of the body a script stands for.
BodyOf(sc) == ConcatRange([i \in 1..Len(sc) |-> Units[sc[i]]], 1, Len(sc))

\* The io error text of a failed read.
ReadErrorText == Bytes(<<"r","e","s","e","t">>)

(***************************************************************************)
(* Inputs of the change-set path: references, git output, the file system  *)
(***************************************************************************)
MaxDiffLines == 2
MaxRefLen    == 2
MaxFiles     == 2

RefMain      == <<"m","a","i","n">>
RefHeadTilde == <<"H","E","A","D","~","1">>
RefInjection == <<";"," ","r","m"," ","-","r","f"," ","/">>
RefFlag      == <<"-","-","o","u","t","p","u","t","=","/","x">>
RefInputs    == {RefMain, RefHeadTilde, RefInjection, RefFlag}

\* What `git rev-parse --show-toplevel` prints, and the path it names.
RootStdout == <<"/","r","e","p","o","\n">>
RepoRoot   == << <<"r","e","p","o">> >>

\* Lines `git diff --name-only` may print: a source file, a symbolic link, a
\* file whose name is one space, and a file deleted from the working tree.
LineSource  == <<"s","/","a",".","r","s">>
LineLink    == <<"l",".","p","y">>
LineSpace   == <<" ">>
LineDeleted == <<"d",".","g","o">>
DiffLines   == {LineSource, LineLink, LineSpace, LineDeleted}

DiffSeqs == UNION {[1..n -> DiffLines] : n \in 0..MaxDiffLines}
StdoutOf(ls) ==
    ConcatRange([k \in 1..Len(ls) |-> ls[k] \o <<"\n">>], 1, Len(ls))
DiffOutputs == {StdoutOf(ls) : ls \in DiffSeqs}

PathSource == RepoRoot \o << <<"s">>, <<"a",".","r","s">> >>
PathLink   == RepoRoot \o << <<"l",".","p","y">> >>
PathSpace  == RepoRoot \o << <<" ">> >>
PathOutside == << <<"e","t","c">>, <<"p","a","s","s","w","d">> >>
PathSibling(root) ==
    SubSeq(root, 1, Len(root) - 1)
        \o << root[Len(root)] \o <<"2">>, <<"x",".","p","y">> >>

\* Where the symbolic link points: into the repository, out of it, into a
\* sibling directory whose name extends the root's, into a loop that
\* canonicalize cannot resolve, or nowhere (the link does not exist).
LinkTargets == {"inside", "outside", "sibling", "unresolvable", "broken"}
\* What canonicalize makes of the repository root: itself, the directory a
\* symbolic link at the root leads to, or an error.
RootCanons  == {<<RepoRoot>>, << << <<"m","n","t">> >> \o RepoRoot >>, <<>>}

FsView(link, rc) ==
    LET croot == IF rc = <<>> THEN RepoRoot ELSE rc[1]
    IN  [exists |-> {RepoRoot, PathSource, PathSpace}
                       \cup (IF link = "broken" THEN {} ELSE {PathLink}),
         canon  |-> [p \in {RepoRoot, PathSource, PathSpace, PathLink} |->
                        IF p = RepoRoot THEN rc
                        ELSE IF p = PathSource
                             THEN <<croot \o << <<"s">>, <<"a",".","r","s">> >> >>
                        ELSE IF p = PathSpace THEN <<croot \o << <<" ">> >> >>
                        ELSE IF link = "inside"
                             THEN <<croot \o << <<"s">>, <<"a",".","r","s">> >> >>
                        ELSE IF link = "outside" THEN <<PathOutside>>
                        ELSE IF link = "sibling" THEN <<PathSibling(croot)>>
                        ELSE <<>>]]
FsViews == {FsView(link, rc) : link \in LinkTargets, rc \in RootCanons}
NoFs    == [exists |-> {}, canon |-> <<>>]

\* --include-ext: absent, empty, or one upper-case entry.
ExtInputs == {<<>>, << <<>> >>, << << <<"P","Y">> >> >>}

\* Inputs of validate_git_ref on its own: every string of at most MaxRefLen
\* characters over RefAlphabet.
RefAlphabet == {"-", "a", "Z", "7", "~", ";", " ", "/"}
RefStrings  == UNION {[1..n -> RefAlphabet] : n \in 0..MaxRefLen}

\* Inputs of filter_analyzable_files on its own.
Dir(name)   == << <<"w">>, name >>
FooRs       == Dir(<<"f","o","o",".","r","s">>)
FooRsUpper  == Dir(<<"f","o","o",".","R","S">>)
FooBin      == Dir(<<"f","o","o",".","b","i","n">>)
Makefile    == Dir(<<"M","a","k","e","f","i","l","e">>)
DotRs       == Dir(<<".","r","s">>)
FooDot      == Dir(<<"f","o","o",".">>)
InDottedDir == << <<"d",".","r","s">>, <<"R","E","A","D","M","E">> >>
SelPaths    == {FooRs, FooRsUpper, FooBin, Makefile, DotRs, FooDot, InDottedDir}
SelSeqs     == UNION {[1..n -> SelPaths] : n \in 0..MaxFiles}
SelExts     == {<<>>, << <<>> >>, << << <<"R","s">> >> >>,
                << << <<"b","i","n">>, <<>> >> >>}
\* At most one of the paths is missing from the disk.
SelDisks    == {[exists |-> SelPaths \ gone, canon |-> <<>>] :
                    gone \in {{}} \cup {{p} : p \in SelPaths}}

\* Inputs of ApiClient::new: what Url::parse returns for the base URL (<<>>
\* for a parse error) and the SKYNET_API_KEY variable.
Schemes == {"http", "https", "ftp", "ws", "wss"}
Hosts   == {[kind |-> "domain", text |-> "localhost"],
            [kind |-> "domain", text |-> "example.com"],
            [kind |-> "ipv4",   text |-> "127.0.0.1"],
            [kind |-> "ipv4",   text |-> "10.0.0.5"],
            [kind |-> "ipv6",   text |-> "::1"],
            [kind |-> "ipv6",   text |-> "2001:db8::1"]}
ParsedUrls == {<<[scheme |-> s, host |-> h]>> : s \in Schemes, h \in Hosts}
UrlInputs  == ParsedUrls \cup {<<>>}
ApiKeys    == {<<>>, <<"k">>}

(***************************************************************************)
(* State                                                                   *)
(***************************************************************************)
VARIABLES
    script,      \* the response body, as the units the gateway sends
    pos,         \* bytes of the body the transport has handed out
    buffer,      \* analyze_stream: text not yet resolved into lines
    event_type,  \* analyze_stream: Option<String>, <<>> is None
    pc,          \* analyze_stream: "next" (at stream.next().await),
                 \*   "lines" (in the inner while loop), "done" (returned)
    outcome,     \* the Result analyze_stream returned
    delivered,   \* the findings on_finding was called with, in call order
    decoded      \* all text pushed to buffer so far

VARIABLES
    staged,        \* get_git_diff_files: --staged
    commit,        \* get_git_diff_files: Option<String>, <<>> is None
    include_ext,   \* get_git_diff_files: Option<Vec<String>>
    git_pc,        \* the call get_git_diff_files is at, or "done"
    spawned,       \* argument vectors of the Command::new("git") ... .output()
                   \*   calls made so far
    repo_root,     \* get_changed_files: repo_root
    diff_stdout,   \* get_changed_files: output.stdout, <<>> if not UTF-8
    fs,            \* the file system as last looked at
    changed_files, \* GitDiffResult.changed_files
    git_result     \* what get_git_diff_files returned

VARIABLES
    reference,   \* validate_git_ref: the argument
    ref_pc,      \* "call" or "returned"
    ref_result   \* validate_git_ref: <<>> is Ok(()), <<m>> is Err(m)

VARIABLES
    sel_files,   \* filter_analyzable_files: files
    sel_ext,     \* filter_analyzable_files: extensions
    sel_fs,      \* the file system at filter time
    sel_pc,      \* "call" or "returned"
    sel_result   \* the Vec<PathBuf> returned

VARIABLES
    base_url,    \* ApiClient::new: the parsed base_url
    api_key_env, \* SKYNET_API_KEY
    url_pc,      \* "call", "build" (past the scheme policy) or "returned"
    client       \* the Result<ApiClient> returned

streamVars == <<script, pos, buffer, event_type, pc, outcome, delivered, decoded>>
gitVars    == <<staged, commit, include_ext, git_pc, spawned, repo_root,
                diff_stdout, fs, changed_files, git_result>>
refVars    == <<reference, ref_pc, ref_result>>
selVars    == <<sel_files, sel_ext, sel_fs, sel_pc, sel_result>>
urlVars    == <<base_url, api_key_env, url_pc, client>>
vars       == <<streamVars, gitVars, refVars, selVars, urlVars>>

Running    == [kind |-> "running", msg |-> <<>>]
OkOutcome  == [kind |-> "ok", msg |-> <<>>]
Failure(m) == [kind |-> "err", msg |-> m]

GitRunning   == [kind |-> "running", msg |-> "", files |-> <<>>]
GitOk(files) == [kind |-> "ok", msg |-> "", files |-> files]
GitErr(m)    == [kind |-> "err", msg |-> m, files |-> <<>>]

NoClient       == [kind |-> "none", msg |-> "", api_key |-> <<>>]
ClientOk(key)  == [kind |-> "ok", msg |-> "", api_key |-> key]
ClientErr(m)   == [kind |-> "err", msg |-> m, api_key |-> <<>>]

\* The parts of the state a run does not use stay as they are here.
StreamIdle ==
    /\ script = <<>> /\ pos = 0 /\ buffer = <<>> /\ event_type = <<>>
    /\ pc = "idle" /\ outcome = Running /\ delivered = <<>> /\ decoded = <<>>
GitIdle ==
    /\ staged = FALSE /\ commit = <<>> /\ include_ext = <<>>
    /\ git_pc = "idle" /\ spawned = <<>> /\ repo_root = <<>>
    /\ diff_stdout = <<>> /\ fs = NoFs /\ changed_files = <<>>
    /\ git_result = GitRunning
RefIdle == reference = <<>> /\ ref_pc = "idle" /\ ref_result = <<>>
SelIdle ==
    /\ sel_files = <<>> /\ sel_ext = <<>> /\ sel_fs = NoFs
    /\ sel_pc = "idle" /\ sel_result = <<>>
UrlIdle ==
    /\ base_url = <<>> /\ api_key_env = <<>> /\ url_pc = "idle"
    /\ client = NoClient

Body == BodyOf(script)

InitStream ==
    /\ script \in Scripts
    /\ pos = 0
    /\ buffer = <<>>
    /\ event_type = <<>>
    /\ pc = "next"
    /\ outcome = Running
    /\ delivered = <<>>
    /\ decoded = <<>>
    /\ GitIdle /\ RefIdle /\ SelIdle /\ UrlIdle

\* The lengths the next chunk may have when rem bytes are left.
ChunkLens(rem) == {n \in 1..rem : n <= MaxChunk \/ n = rem}

\* The line loop left after every line, as if the loop were an `if`.
NextPcOneLinePerChunk(buf) == "next"

\* `while let Some(newline_pos) = buffer.find('\n')` (api_client.rs:134):
\* stay in the line loop while the buffer holds a line terminator.
NextPc(buf) == IF FindNewline(buf) # 0 THEN "lines" ELSE "next"

\* stream.next() yields Some(Ok(chunk)) (api_client.rs:128-131).
ReadChunk ==
    /\ pc = "next"
    /\ \E n \in ChunkLens(Len(Body) - pos) :
           LET text == Utf8Lossy(SubSeq(Body, pos + 1, pos + n))
           IN  /\ pos' = pos + n
               /\ buffer' = buffer \o text
               /\ decoded' = decoded \o text
               /\ pc' = NextPc(buffer \o text)
    /\ UNCHANGED <<script, event_type, outcome, delivered>>
    /\ UNCHANGED <<gitVars, refVars, selVars, urlVars>>

\* One turn of the inner loop (api_client.rs:134-164).
ProcessLine ==
    /\ pc = "lines"
    /\ LET nl   == FindNewline(buffer)
           line == TakeFirst(buffer, nl - 1)
           rest == DropFirst(buffer, nl)
           h    == HandleLine(line, event_type)
       IN  /\ buffer' = rest
           /\ event_type' = h.slot
           /\ delivered' = delivered \o h.sink
           /\ IF h.bail # <<>>
              THEN outcome' = Failure(h.bail[1]) /\ pc' = "done"
              ELSE outcome' = outcome /\ pc' = NextPc(rest)
    /\ UNCHANGED <<script, pos, decoded>>
    /\ UNCHANGED <<gitVars, refVars, selVars, urlVars>>

\* The end of the stream when what is left in the buffer is processed as a
\* last line.
StreamEndFlushes ==
    /\ pc = "next"
    /\ pos = Len(Body)
    /\ LET h == HandleLine(buffer, event_type)
       IN  /\ buffer' = <<>>
           /\ event_type' = h.slot
           /\ delivered' = delivered \o h.sink
           /\ outcome' = IF h.bail # <<>> THEN Failure(h.bail[1]) ELSE OkOutcome
    /\ pc' = "done"
    /\ UNCHANGED <<script, pos, decoded>>
    /\ UNCHANGED <<gitVars, refVars, selVars, urlVars>>

\* stream.next() yields None: Ok(()) (api_client.rs:128, 167).
StreamEnd ==
    /\ pc = "next"
    /\ pos = Len(Body)
    /\ outcome' = OkOutcome
    /\ pc' = "done"
    /\ UNCHANGED <<script, pos, buffer, event_type, delivered, decoded>>
    /\ UNCHANGED <<gitVars, refVars, selVars, urlVars>>

\* A failed read that is recorded while the loop goes on to the next chunk.
ReadErrorKeepsReading ==
    /\ pc = "next"
    /\ outcome.kind = "running"
    /\ outcome' = Failure(StreamReadErrorPrefix \o ReadErrorText)
    /\ pc' = "next"
    /\ UNCHANGED <<script, pos, buffer, event_type, delivered, decoded>>
    /\ UNCHANGED <<gitVars, refVars, selVars, urlVars>>

\* stream.next() yields Some(Err(e)) (api_client.rs:129).
ReadError ==
    /\ pc = "next"
    /\ outcome' = Failure(StreamReadErrorPrefix \o ReadErrorText)
    /\ pc' = "done"
    /\ UNCHANGED <<script, pos, buffer, event_type, delivered, decoded>>
    /\ UNCHANGED <<gitVars, refVars, selVars, urlVars>>

NextStream == ReadChunk \/ ProcessLine \/ StreamEnd \/ ReadError

SpecStream == InitStream /\ [][NextStream]_vars

(***************************************************************************)
(* What a body means, stated over its lines: the event type in force at a  *)
(* line is the one named by the nearest event line before it unless a      *)
(* blank line lies between; a finding event is a data line under the type  *)
(* `finding`, an error event a data line under the type `error`.           *)
(***************************************************************************)
\* The elements of a finite set of numbers in increasing order.
Ascending(S) ==
    [k \in 1..Cardinality(S) |-> CHOOSE i \in S : Cardinality({j \in S : j <= i}) = k]

Largest(S) == CHOOSE i \in S : \A j \in S : j <= i

LineEnds(text) == {i \in 1..Len(text) : text[i] = Newline}

\* The lines of text that a line terminator follows, without the terminator.
CompleteLines(text) ==
    LET ends == Ascending(LineEnds(text))
    IN  [k \in 1..Len(ends) |->
            SubSeq(text, IF k = 1 THEN 1 ELSE ends[k - 1] + 1, ends[k] - 1)]

\* The text after the last line terminator.
LastPartialLine(text) ==
    IF LineEnds(text) = {} THEN text ELSE DropFirst(text, Largest(LineEnds(text)))

\* Every line of text, the last one whether or not a terminator follows it.
AllLines(text) ==
    IF LastPartialLine(text) = <<>> THEN CompleteLines(text)
    ELSE Append(CompleteLines(text), LastPartialLine(text))

IsBlankLine(l) == \A i \in 1..Len(l) : IsWhitespace(l[i])
IsEventLine(l) == ~IsBlankLine(l) /\ HasPrefix(Trim(l), EventPrefix)
\* A data line with a payload, and a data line with any payload or none.
IsDataLine(l)      == ~IsEventLine(l) /\ HasPrefix(Trim(l), DataPrefix)
IsDataLineLoose(l) == ~IsEventLine(l) /\ HasPrefix(Trim(l) \o <<Ord(" ")>>, DataPrefix)
PayloadOf(l) == IF IsDataLine(l) THEN DropFirst(Trim(l), Len(DataPrefix)) ELSE <<>>

\* The event type in force at line k: <<>> or <<type>>.
TypeAt(lines, k) ==
    LET setters == {j \in 1..(k - 1) : IsBlankLine(lines[j]) \/ IsEventLine(lines[j])}
    IN  IF setters = {} \/ IsBlankLine(lines[Largest(setters)]) THEN <<>>
        ELSE <<DropFirst(Trim(lines[Largest(setters)]), Len(EventPrefix))>>

\* Error events: data lines under the type `error` (Loose: the payload may be empty).
ErrorEvents(lines) ==
    {k \in 1..Len(lines) : IsDataLine(lines[k]) /\ TypeAt(lines, k) = <<TypeError>>}
ErrorEventsLoose(lines) ==
    {k \in 1..Len(lines) : IsDataLineLoose(lines[k]) /\ TypeAt(lines, k) = <<TypeError>>}

\* Finding events, and those whose payload is (is not) a SecurityFinding.
FindingEvents(lines) ==
    {k \in 1..Len(lines) : IsDataLine(lines[k]) /\ TypeAt(lines, k) = <<TypeFinding>>}
WellFormedFindings(lines) ==
    {k \in FindingEvents(lines) : DecodeFinding(PayloadOf(lines[k])) # <<>>}
MalformedFindings(lines) ==
    {k \in FindingEvents(lines) : DecodeFinding(PayloadOf(lines[k])) = <<>>}

Smallest(S) == CHOOSE i \in S : \A j \in S : i <= j

\* The findings a body with these lines reports, in order, up to the error
\* event at line stop (0: none).
FindingsUpTo(lines, stop) ==
    LET idx == Ascending({k \in WellFormedFindings(lines) : stop = 0 \/ k < stop})
    IN  [n \in 1..Len(idx) |-> DecodeFinding(PayloadOf(lines[idx[n]]))[1]]

\* What ingesting these lines is to give: the findings before the first error
\* event (all of them when there is none) and failure with that event's payload.
ExpectedOf(lines, errors) ==
    IF errors = {}
    THEN [delivered |-> FindingsUpTo(lines, 0), outcome |-> OkOutcome]
    ELSE [delivered |-> FindingsUpTo(lines, Smallest(errors)),
          outcome   |-> Failure(ServerErrorPrefix \o PayloadOf(lines[Smallest(errors)]))]

\* The sequence without the elements at the positions in drop.
Without(seq, drop) ==
    LET keep == Ascending({k \in 1..Len(seq) : k \notin drop})
    IN  [n \in 1..Len(keep) |-> seq[keep[n]]]

\* analyze_stream returned, and not because a read failed.
ReadFailed == outcome.kind = "err" /\ HasPrefix(outcome.msg, StreamReadErrorPrefix)
CleanEnd   == pc = "done" /\ ~ReadFailed

\* The line the inner loop takes next, and the sink call it is to make.
NextLine == TakeFirst(buffer, FindNewline(buffer) - 1)
ExpectedSink(l, type) ==
    IF IsDataLine(l) /\ type = <<TypeFinding>> THEN DecodeFinding(PayloadOf(l)) ELSE <<>>

\* Ingesting in chunks gives what the lines of the decoded text mean.
IngestionMatchesDecodedText ==
    CleanEnd =>
        LET lines == CompleteLines(decoded)
            e     == ExpectedOf(lines, ErrorEvents(lines))
        IN  delivered = e.delivered /\ outcome = e.outcome

(***************************************************************************)
(* Claims about analyze_stream                                             *)
(***************************************************************************)

\* C1: however the bytes of a body are split into chunks, the sink sees the
\* same findings (same field contents, same order) and analyze_stream returns
\* the same outcome as for the body read in one piece.
C1_ChunkSplitInvariance ==
    CleanEnd =>
        LET lines == CompleteLines(Utf8Lossy(Body))
            e     == ExpectedOf(lines, ErrorEvents(lines))
        IN  delivered = e.delivered /\ outcome = e.outcome

\* C2: when the body holds an error event (an `error` event line and its data
\* line, whatever the payload, the empty one included), ingestion ends in
\* failure with that payload and no finding after the event reaches the sink.
C2_ErrorEventHalts ==
    LET lines == AllLines(Utf8Lossy(Body))
    IN  (CleanEnd /\ ErrorEventsLoose(lines) # {}) =>
            LET e == ExpectedOf(lines, ErrorEventsLoose(lines))
            IN  outcome = e.outcome /\ Len(delivered) = Len(e.delivered)

\* C3 as claimed: at a clean end of a body without error event the outcome is
\* success and the sink was called once per well-formed finding event of the
\* whole body, whether or not a line terminator follows the last line.
C3_CountsEveryLine ==
    LET lines == AllLines(Utf8Lossy(Body))
    IN  (CleanEnd /\ ErrorEventsLoose(lines) = {}) =>
            /\ outcome = OkOutcome
            /\ Len(delivered) = Cardinality(WellFormedFindings(lines))

\* C3 as amended: at a clean end of a body without error event the outcome is
\* success and the sink was called once per well-formed finding event among
\* the lines of the decoded text that a line terminator follows; a last line
\* without terminator is never processed.
C3_CountsTerminatedLines ==
    (CleanEnd /\ ErrorEventsLoose(AllLines(decoded)) = {}) =>
        /\ outcome = OkOutcome
        /\ Len(delivered) = Cardinality(WellFormedFindings(CompleteLines(decoded)))

\* C3 witness: a body ended cleanly whose unterminated last line holds a
\* finding that was not delivered, after one that was.
C3_Witness ==
    /\ CleanEnd
    /\ outcome = OkOutcome
    /\ ErrorEventsLoose(AllLines(decoded)) = {}
    /\ Len(delivered) = 1
    /\ Cardinality(WellFormedFindings(AllLines(decoded))) = 2

\* C4: a finding data line whose payload is no SecurityFinding changes nothing:
\* the findings delivered and the outcome are those of the body without it.
C4_MalformedFindingSkipped ==
    LET lines == CompleteLines(decoded)
    IN  (CleanEnd /\ MalformedFindings(lines) # {}) =>
            LET rest == Without(lines, MalformedFindings(lines))
                e    == ExpectedOf(rest, ErrorEvents(rest))
            IN  delivered = e.delivered /\ outcome = e.outcome

\* C4 witness: a malformed finding line was processed and a valid finding data
\* line after it, under the same event line, was delivered.
C4_Witness ==
    LET lines == CompleteLines(decoded)
    IN  /\ CleanEnd
        /\ outcome = OkOutcome
        /\ \E k \in MalformedFindings(lines) :
               /\ k + 1 \in WellFormedFindings(lines)
               /\ DecodeFinding(PayloadOf(lines[k + 1])) = <<delivered[Len(delivered)]>>

\* C10: the sink is called in the very step that takes a finding's line out of
\* the buffer (so in line order, before any later line), a chunk is read only
\* when no complete line is left in the buffer, and reading calls no sink.
C10_SinkBeforeNextInput ==
    /\ [][pc = "lines" => delivered' = delivered \o ExpectedSink(NextLine, event_type)]_vars
    /\ [][pc = "next" => delivered' = delivered /\ (pos' # pos => FindNewline(buffer) = 0)]_vars
    /\ [](CleanEnd => delivered = FindingsUpTo(CompleteLines(decoded),
                                     IF ErrorEvents(CompleteLines(decoded)) = {} THEN 0
                                     ELSE Smallest(ErrorEvents(CompleteLines(decoded)))))

\* C10 witness: finding A was delivered, then finding B, while part of the body
\* is still unread.
C10_Witness ==
    /\ Len(delivered) = 2
    /\ delivered[1].id = Bytes(<<"A">>)
    /\ delivered[2].id = Bytes(<<"B">>)
    /\ pos < Len(Body)

\* C11: a failure that arises where the loop waits for a chunk ends
\* analyze_stream in that step with a stream read error, which is not of the
\* `Server error` form (that form arises only while a line is processed); the
\* step calls no sink and reads nothing, and once the read has failed nothing
\* is read or delivered any more and the findings delivered stay as they are.
C11_ReadFailureEndsIngestion ==
    /\ [][(pc = "next" /\ outcome'.kind = "err") =>
              /\ pc' = "done"
              /\ outcome' = Failure(StreamReadErrorPrefix \o ReadErrorText)
              /\ ~HasPrefix(outcome'.msg, ServerErrorPrefix)
              /\ delivered' = delivered /\ pos' = pos /\ buffer' = buffer]_vars
    /\ [][(outcome' # outcome /\ HasPrefix(outcome'.msg, ServerErrorPrefix)) =>
              pc = "lines"]_vars
    /\ [][ReadFailed =>
              delivered' = delivered /\ pos' = pos /\ outcome' = outcome]_vars
    /\ [](ReadFailed => pc = "done")

\* C11 witness: the read failed in the middle of the body after a finding had
\* been delivered, and the finding is still there.
C11_Witness ==
    /\ ReadFailed
    /\ pc = "done"
    /\ 0 < pos /\ pos < Len(Body)
    /\ Len(delivered) = 1
    /\ delivered[1].id = Bytes(<<"A">>)

\* The data lines of these lines that stand under the type `complete`.
CompleteEvents(lines) ==
    {k \in 1..Len(lines) :
        IsDataLineLoose(lines[k]) /\ TypeAt(lines, k) = <<TypeComplete>>}

\* C12: the event type slot starts as None; it changes only when a line is
\* processed, to the type an event line names or to None at an empty or
\* white space line, and those lines always do so; a data line under a slot
\* that is None or names a type other than finding and error (complete
\* included) calls no sink, ends nothing and leaves the slot; a data line
\* calls the sink only under finding and ends the stream exactly under error;
\* and a body with a complete event that ends in success has delivered every
\* well-formed finding event, those after the complete event included.
C12_EventTypeSlotDecidesDispatch ==
    /\ event_type = <<>>
    /\ [][event_type' # event_type =>
              /\ pc = "lines"
              /\ \/ IsEventLine(NextLine)
                    /\ event_type' = <<DropFirst(Trim(NextLine), Len(EventPrefix))>>
                 \/ IsBlankLine(NextLine) /\ event_type' = <<>>]_vars
    /\ [][(pc = "lines" /\ IsBlankLine(NextLine)) => event_type' = <<>>]_vars
    /\ [][(pc = "lines" /\ IsEventLine(NextLine)) =>
              event_type' = <<DropFirst(Trim(NextLine), Len(EventPrefix))>>]_vars
    /\ [][(pc = "lines" /\ IsDataLineLoose(NextLine)
              /\ event_type \notin {<<TypeFinding>>, <<TypeError>>}) =>
              /\ delivered' = delivered
              /\ outcome' = outcome
              /\ pc' # "done"
              /\ event_type' = event_type]_vars
    /\ [][(pc = "lines" /\ IsDataLine(NextLine)) =>
              /\ delivered' # delivered => event_type = <<TypeFinding>>
              /\ pc' = "done" <=> event_type = <<TypeError>>]_vars
    /\ []((CleanEnd /\ outcome = OkOutcome
              /\ CompleteEvents(CompleteLines(decoded)) # {}) =>
              Len(delivered) = Cardinality(WellFormedFindings(CompleteLines(decoded))))

\* C12 witness: the stream ended in success with one finding delivered, and a
\* data line with a second, well-formed finding had arrived while the slot was
\* None.
C12_Witness ==
    /\ CleanEnd
    /\ outcome = OkOutcome
    /\ Len(delivered) = 1
    /\ \E k \in 1..Len(CompleteLines(decoded)) :
           /\ IsDataLine(CompleteLines(decoded)[k])
           /\ TypeAt(CompleteLines(decoded), k) = <<>>
           /\ DecodeFinding(PayloadOf(CompleteLines(decoded)[k])) # <<>>

(***************************************************************************)
(* get_git_diff_files (main.rs:128-166) and the calls it makes             *)
(***************************************************************************)
\* str::trim on a string of characters.
TrimText(s) ==
    LET keep == {i \in 1..Len(s) : ~IsWsChar(s[i])}
    IN  IF keep = {} THEN <<>>
        ELSE SubSeq(s, CHOOSE i \in keep : \A j \in keep : i <= j,
                       CHOOSE i \in keep : \A j \in keep : j <= i)

\* main.rs:139-145.
TargetOf(st, cm) ==
    IF st THEN [kind |-> "Staged", ref |-> <<>>]
    ELSE IF cm # <<>> THEN [kind |-> "Commit", ref |-> cm[1]]
    ELSE [kind |-> "WorkingTree", ref |-> <<>>]

Target == TargetOf(staged, commit)

\* git.rs:87-101: the argument vector after "git".
DiffArgs(target) ==
    IF target.kind = "WorkingTree" THEN <<"diff", "--name-only">>
    ELSE IF target.kind = "Staged" THEN <<"diff", "--staged", "--name-only">>
    ELSE <<"diff", "--name-only", target.ref, "HEAD">>

ErrSpawnCheck   == "Failed to execute git command"
ErrNotInsideGit == "Not inside a git repository. Use file paths instead of --git-diff"
ErrSpawnRoot    == "Failed to execute git command."
ErrNotARepo     == "Not a git repository."
ErrRootOutput   == "Failed to parse git output."
ErrSpawnDiff    == "Failed to execute git diff."
ErrDiffFailed   == "Git diff failed. Verify the reference exists."
ErrDiffOutput   == "Failed to parse git diff output."

\* Command::output: the subprocess cannot be started, exits with a failure
\* status, or succeeds.
Exits == {"no_spawn", "failure", "success"}

InitGit ==
    /\ staged \in BOOLEAN
    /\ commit \in {<<>>} \cup {<<r>> : r \in RefInputs}
    /\ include_ext \in ExtInputs
    /\ git_pc = "is_git_repository"
    /\ spawned = <<>>
    /\ repo_root = <<>>
    /\ diff_stdout = <<>>
    /\ fs = NoFs
    /\ changed_files = <<>>
    /\ git_result = GitRunning
    /\ StreamIdle /\ RefIdle /\ SelIdle /\ UrlIdle

GitFail(m) == git_result' = GitErr(m) /\ git_pc' = "done"

\* git::is_git_repository()? and the bail of main.rs:134-136 (git.rs:24-31).
IsGitRepository ==
    /\ git_pc = "is_git_repository"
    /\ \E exit \in Exits :
          /\ spawned' = Append(spawned, <<"rev-parse", "--is-inside-work-tree">>)
          /\ IF exit = "no_spawn" THEN GitFail(ErrSpawnCheck)
             ELSE IF exit = "failure" THEN GitFail(ErrNotInsideGit)
             ELSE git_pc' = "get_repository_root" /\ git_result' = git_result
    /\ UNCHANGED <<staged, commit, include_ext, repo_root, diff_stdout, fs,
                   changed_files>>
    /\ UNCHANGED <<streamVars, refVars, selVars, urlVars>>

\* get_repository_root()? (git.rs:34-50, called at git.rs:84).
GetRepositoryRoot ==
    /\ git_pc = "get_repository_root"
    /\ \E exit \in Exits, utf8 \in BOOLEAN :
          /\ spawned' = Append(spawned, <<"rev-parse", "--show-toplevel">>)
          /\ IF exit = "no_spawn"
             THEN GitFail(ErrSpawnRoot) /\ repo_root' = repo_root
             ELSE IF exit = "failure"
             THEN GitFail(ErrNotARepo) /\ repo_root' = repo_root
             ELSE IF ~utf8
             THEN GitFail(ErrRootOutput) /\ repo_root' = repo_root
             ELSE /\ repo_root' = Components(TrimText(RootStdout))
                  /\ git_pc' = "diff"
                  /\ git_result' = git_result
    /\ UNCHANGED <<staged, commit, include_ext, diff_stdout, fs, changed_files>>
    /\ UNCHANGED <<streamVars, refVars, selVars, urlVars>>

\* The reference check and the diff subprocess (git.rs:87-113).
RunDiff ==
    /\ git_pc = "diff"
    /\ LET checked == IF Target.kind = "Commit"
                      THEN ValidateGitRef(Target.ref) ELSE <<>>
       IN  IF checked # <<>>
           THEN GitFail(checked[1]) /\ UNCHANGED <<spawned, diff_stdout>>
           ELSE \E exit \in Exits :
                  /\ spawned' = Append(spawned, DiffArgs(Target))
                  /\ IF exit = "no_spawn"
                     THEN GitFail(ErrSpawnDiff) /\ diff_stdout' = diff_stdout
                     ELSE IF exit = "failure"
                     THEN GitFail(ErrDiffFailed) /\ diff_stdout' = diff_stdout
                     ELSE /\ diff_stdout' \in
                                 {<<out>> : out \in DiffOutputs} \cup {<<>>}
                          /\ git_pc' = "parse"
                          /\ git_result' = git_result
    /\ UNCHANGED <<staged, commit, include_ext, repo_root, fs, changed_files>>
    /\ UNCHANGED <<streamVars, refVars, selVars, urlVars>>

\* String::from_utf8(output.stdout) and the path pipeline (git.rs:116-128).
ParseOutput ==
    /\ git_pc = "parse"
    /\ IF diff_stdout = <<>>
       THEN GitFail(ErrDiffOutput) /\ UNCHANGED <<fs, changed_files>>
       ELSE \E view \in FsViews :
              /\ fs' = view
              /\ changed_files' = ChangedFilesOf(diff_stdout[1], repo_root, view)
              /\ git_pc' = "filter"
              /\ git_result' = git_result
    /\ UNCHANGED <<staged, commit, include_ext, spawned, repo_root, diff_stdout>>
    /\ UNCHANGED <<streamVars, refVars, selVars, urlVars>>

\* git::filter_analyzable_files(result.changed_files, ...) (main.rs:158-165);
\* files may have been deleted since the diff was parsed.
FilterFiles ==
    /\ git_pc = "filter"
    /\ \E gone \in SUBSET {PathSource} :
          LET now == [fs EXCEPT !.exists = @ \ gone]
          IN  /\ fs' = now
              /\ git_result' = GitOk(FilterAnalyzableFiles(changed_files, include_ext, now))
    /\ git_pc' = "done"
    /\ UNCHANGED <<staged, commit, include_ext, spawned, repo_root, diff_stdout,
                   changed_files>>
    /\ UNCHANGED <<streamVars, refVars, selVars, urlVars>>

NextGit ==
    IsGitRepository \/ GetRepositoryRoot \/ RunDiff \/ ParseOutput \/ FilterFiles

SpecGit == InitGit /\ [][NextGit]_vars

(***************************************************************************)
(* validate_git_ref called on its own                                      *)
(***************************************************************************)
InitRef ==
    /\ reference \in RefStrings
    /\ ref_pc = "call"
    /\ ref_result = <<>>
    /\ StreamIdle /\ GitIdle /\ SelIdle /\ UrlIdle

ValidateRefCall ==
    /\ ref_pc = "call"
    /\ ref_result' = ValidateGitRef(reference)
    /\ ref_pc' = "returned"
    /\ UNCHANGED reference
    /\ UNCHANGED <<streamVars, gitVars, selVars, urlVars>>

NextRef == ValidateRefCall

SpecRef == InitRef /\ [][NextRef]_vars

(***************************************************************************)
(* filter_analyzable_files called on its own                               *)
(***************************************************************************)
InitSel ==
    /\ sel_files \in SelSeqs
    /\ sel_ext \in SelExts
    /\ sel_fs \in SelDisks
    /\ sel_pc = "call"
    /\ sel_result = <<>>
    /\ StreamIdle /\ GitIdle /\ RefIdle /\ UrlIdle

FilterCall ==
    /\ sel_pc = "call"
    /\ sel_result' = FilterAnalyzableFiles(sel_files, sel_ext, sel_fs)
    /\ sel_pc' = "returned"
    /\ UNCHANGED <<sel_files, sel_ext, sel_fs>>
    /\ UNCHANGED <<streamVars, gitVars, refVars, urlVars>>

NextSel == FilterCall

SpecSel == InitSel /\ [][NextSel]_vars

(***************************************************************************)
(* ApiClient::new (api_client.rs:15-45)                                    *)
(***************************************************************************)
InitUrl ==
    /\ base_url \in UrlInputs
    /\ api_key_env \in ApiKeys
    /\ url_pc = "call"
    /\ client = NoClient
    /\ StreamIdle /\ GitIdle /\ RefIdle /\ SelIdle

\* Url::parse and the scheme policy (api_client.rs:17-30).
CheckUrl ==
    /\ url_pc = "call"
    /\ IF base_url = <<>>
       THEN client' = ClientErr(ErrInvalidUrl) /\ url_pc' = "returned"
       ELSE IF RejectsScheme(base_url[1])
       THEN client' = ClientErr(ErrInsecure) /\ url_pc' = "returned"
       ELSE client' = client /\ url_pc' = "build"
    /\ UNCHANGED <<base_url, api_key_env>>
    /\ UNCHANGED <<streamVars, gitVars, refVars, selVars>>

\* The API key and Client::builder()...build(), which may fail
\* (api_client.rs:33-44).
BuildClient ==
    /\ url_pc = "build"
    /\ \E built \in BOOLEAN :
          client' = IF built THEN ClientOk(api_key_env)
                    ELSE ClientErr(ErrHttpClient)
    /\ url_pc' = "returned"
    /\ UNCHANGED <<base_url, api_key_env>>
    /\ UNCHANGED <<streamVars, gitVars, refVars, selVars>>

NextUrl == CheckUrl \/ BuildClient

SpecUrl == InitUrl /\ [][NextUrl]_vars

(***************************************************************************)
(* Properties of the change-set path and of ApiClient::new                 *)
(***************************************************************************)
\* C5: when the target is Commit(r) and validate_git_ref rejects r, the query
\* fails, and it has returned the invalid-reference error before any git
\* subprocess was run: not the repository queries, not the diff.
C5_InvalidRefFailsBeforeAnySpawn ==
    (git_pc = "done" /\ Target.kind = "Commit" /\ ValidateGitRef(Target.ref) # <<>>)
        => /\ git_result.kind = "err"
           /\ git_result.msg \in {ErrRefLeadingDash, ErrRefCharacters}
                  => spawned = <<>>

\* The characters of [A-Za-z0-9_./@^~-], written out.
AllowedRefChars ==
    {"a","b","c","d","e","f","g","h","i","j","k","l","m","n","o","p","q","r",
     "s","t","u","v","w","x","y","z","A","B","C","D","E","F","G","H","I","J",
     "K","L","M","N","O","P","Q","R","S","T","U","V","W","X","Y","Z","0","1",
     "2","3","4","5","6","7","8","9","_",".","/","@","^","~","-"}
BeginsWithDash(s)  == Len(s) >= 1 /\ s[1] = "-"
HasForeignChar(s)  == \E i \in 1..Len(s) : s[i] \notin AllowedRefChars

\* C6 as claimed: validate_git_ref fails for every string that begins with "-"
\* or holds a character outside the set, and succeeds for every other string,
\* whatever its length.
C6_AcceptsEveryOtherString ==
    ref_pc = "returned" =>
        (ref_result # <<>> <=> (BeginsWithDash(reference) \/ HasForeignChar(reference)))

\* C6 as amended: validate_git_ref returns for every string; it fails for the
\* empty string, for every string that begins with "-" and for every string
\* that holds a character outside the set, and succeeds for every other
\* string; the call changes nothing but its result.
C6_AcceptsEveryOtherNonEmptyString ==
    /\ ref_pc = "returned" =>
          /\ ref_result \in {<<>>, <<ErrRefLeadingDash>>, <<ErrRefCharacters>>}
          /\ ref_result # <<>> <=>
                 \/ reference = <<>>
                 \/ BeginsWithDash(reference)
                 \/ HasForeignChar(reference)
    /\ spawned = <<>>

\* C6 witness: a reference with a "-" after its first character was accepted.
C6_Witness ==
    /\ ref_pc = "returned"
    /\ reference = <<"a", "-">>
    /\ ref_result = <<>>

\* path has base as a prefix, component by component.
ComponentPrefix(path, base) ==
    \A i \in 1..Len(base) : i <= Len(path) /\ path[i] = base[i]

\* The joined path escapes the repository as the file system shows it: it
\* exists and its canonical form, or the root's, cannot be had or the root's
\* is no prefix of it.
Escapes(path) ==
    /\ path \in fs.exists
    /\ \/ Canonicalize(fs, path) = <<>>
       \/ Canonicalize(fs, repo_root) = <<>>
       \/ ~ComponentPrefix(Canonicalize(fs, path)[1], Canonicalize(fs, repo_root)[1])

JoinedLines(lines) == [k \in 1..Len(lines) |-> Join(repo_root, lines[k])]

\* C7 as claimed: changed_files holds the joined paths of the diff output
\* lines, in output order, without the escaping ones; every other line is
\* kept.
C7_EveryOtherLineKept ==
    git_pc = "filter" =>
        changed_files =
            SelectSeq(JoinedLines(StrLines(diff_stdout[1])), LAMBDA p : ~Escapes(p))

\* C7 as amended: changed_files holds the joined paths of the diff output
\* lines that are not blank (empty or white space only), in output order,
\* without the escaping ones; every other non-blank line is kept.
C7_EveryOtherNonBlankLineKept ==
    git_pc = "filter" =>
        changed_files =
            SelectSeq(JoinedLines(SelectSeq(StrLines(diff_stdout[1]),
                                            LAMBDA l : \E i \in 1..Len(l) : l[i] \notin {" ", "\t", "\r", "\n"})),
                      LAMBDA p : ~Escapes(p))

\* C7 witness: the diff named a symbolic link that leads out of the repository
\* and then a source file; only the source file is in changed_files.
C7_Witness ==
    /\ git_pc = "filter"
    /\ StrLines(diff_stdout[1]) = <<LineLink, LineSource>>
    /\ Canonicalize(fs, PathLink) = <<PathOutside>>
    /\ changed_files = <<PathSource>>

LowerLetters ==
    <<"a","b","c","d","e","f","g","h","i","j","k","l","m","n","o","p","q","r",
      "s","t","u","v","w","x","y","z">>
UpperLetters ==
    <<"A","B","C","D","E","F","G","H","I","J","K","L","M","N","O","P","Q","R",
      "S","T","U","V","W","X","Y","Z">>
SameLetter(x, y) ==
    \/ x = y
    \/ \E k \in 1..26 : {x, y} = {LowerLetters[k], UpperLetters[k]}
SameIgnoringCase(a, b) ==
    /\ Len(a) = Len(b)
    /\ \A i \in 1..Len(a) : SameLetter(a[i], b[i])

\* The file name of path splits at its last "." (not its first character)
\* into a stem and the extension ext.
HasExtension(path, ext) ==
    LET name == path[Len(path)]
    IN  \E i \in 2..Len(name) :
           /\ name[i] = "."
           /\ \A j \in (i + 1)..Len(name) : name[j] # "."
           /\ ext = SubSeq(name, i + 1, Len(name))

SelAllowed == IF sel_ext = <<>> THEN DefaultExtensions ELSE sel_ext[1]

Qualifies(path) ==
    /\ \E k \in 1..Len(SelAllowed), n \in 0..Len(path[Len(path)]) :
           LET name == path[Len(path)]
               ext  == SubSeq(name, Len(name) - n + 1, Len(name))
           IN  HasExtension(path, ext) /\ SameIgnoringCase(ext, SelAllowed[k])
    /\ path \in sel_fs.exists

InSeq(x, seq) == \E k \in 1..Len(seq) : seq[k] = x

\* C8: filter_analyzable_files returns the input paths, in input order, whose
\* extension equals an entry of the allow-list (the default one when none is
\* given) up to ASCII case and which exist; so an empty allow-list returns
\* nothing, a path without extension is never returned, and under the default
\* list an existing foo.rs and foo.RS are returned and foo.bin is not.
C8_FilterKeepsExactlyAnalyzable ==
    sel_pc = "returned" =>
        /\ sel_result = SelectSeq(sel_files, Qualifies)
        /\ sel_ext = << <<>> >> => sel_result = <<>>
        /\ \A k \in 1..Len(sel_result) :
               \E i \in 1..Len(sel_result[k][Len(sel_result[k])]) :
                   sel_result[k][Len(sel_result[k])][i] = "."
        /\ ~InSeq(Makefile, sel_result) /\ ~InSeq(InDottedDir, sel_result)
        /\ sel_ext = <<>> =>
               /\ \A p \in {FooRs, FooRsUpper} :
                      (InSeq(p, sel_files) /\ p \in sel_fs.exists) => InSeq(p, sel_result)
               /\ ~InSeq(FooBin, sel_result)

\* C8 witness: under the default list foo.bin and an existing foo.RS went in
\* and foo.RS alone came out.
C8_Witness ==
    /\ sel_pc = "returned"
    /\ sel_ext = <<>>
    /\ sel_files = <<FooBin, FooRsUpper>>
    /\ FooRsUpper \in sel_fs.exists
    /\ sel_result = <<FooRsUpper>>

LoopbackHost(host) == host.text \in {"localhost", "127.0.0.1", "::1"}

\* C9: for a well-formed base URL, new succeeds only if the host is a loopback
\* address or the scheme is https; with a host that is no loopback address and
\* a scheme other than https it gets no further than the scheme policy and
\* fails with the insecure-endpoint error; with a loopback host (localhost,
\* 127.0.0.1, ::1) it never fails with that error.
C9_HttpsUnlessLoopback ==
    base_url # <<>> =>
        LET u == base_url[1]
        IN  /\ client.kind = "ok" => (LoopbackHost(u.host) \/ u.scheme = "https")
            /\ (~LoopbackHost(u.host) /\ u.scheme # "https" /\ url_pc # "call") =>
                   (url_pc = "returned" /\ client = ClientErr(ErrInsecure))
            /\ LoopbackHost(u.host) => client.msg # ErrInsecure

====
